---- MODULE Spec2Model ----
(***************************************************************************)
(* Model of the mail-organizer backend: the query router and retrieval-    *)
(* augmented answer engine (backend/src/rag_engine.py) over the message    *)
(* store (backend/src/storage/storage.py).                                 *)
(*                                                                         *)
(* Strings are sequences of one-character strings, so that str.lower() and *)
(* the substring test `k in s` are computed and not assumed.  Similarity   *)
(* scores and thresholds are in hundredths (0.25 is 25, 1.0 is 100).       *)
(***************************************************************************)
EXTENDS Integers, Sequences, FiniteSets, TLC

VARIABLES
    messages,        \* InMemoryStorage._messages: insertion-ordered dict, as a sequence of records
    provider,        \* RAGQueryEngine.llm.provider
    pc,              \* engine: "idle", the strategy query dispatched to, "returned" | "raised";
                     \* classifier runs: "start" | "classified"
    call,            \* arguments of the query in progress: question, top_k, similarity_threshold
    k,               \* query's local k: the limit handed to the retrieval strategy
    query_type,      \* what _detect_query_type returned for the question
    matched_label,   \* what get_label_from_query returned for the question
    retrieved,       \* ids of the messages the storage call of the query returned
    search_args,     \* the similarity_search calls issued by the query: <<[limit, threshold]>>
    llm_prompts,     \* the prompts handed to the generation provider by the query
    result,          \* the dict returned by query
    classifications, \* InMemoryStorage._classifications: message id -> list of record dicts
    latest_classification,  \* InMemoryStorage._latest_classification: message id -> record id, 0 = no key
    next_id          \* the next value of uuid4() and of the clock behind created_at

vars == <<messages, provider, pc, call, k, query_type, matched_label, retrieved,
          search_args, llm_prompts, result, classifications, latest_classification,
          next_id>>

\* The part of the store only classification writes and init_db touch
classification_store == <<classifications, latest_classification, next_id>>

---------------------------------------------------------------------------
(* Bounds *)

\* Number of distinct message ids the store may hold.
MaxMsgs == 2

\* Number of lexicon words a classifier input is built from.
MaxWords == 2

---------------------------------------------------------------------------
(* Strings *)

UpperChars == <<"A","B","C","D","E","F","G","H","I","J","K","L","M",
                "N","O","P","Q","R","S","T","U","V","W","X","Y","Z">>
LowerChars == <<"a","b","c","d","e","f","g","h","i","j","k","l","m",
                "n","o","p","q","r","s","t","u","v","w","x","y","z">>

LowerChar(c) ==
    IF \E i \in 1..Len(UpperChars) : UpperChars[i] = c
    THEN LowerChars[CHOOSE i \in 1..Len(UpperChars) : UpperChars[i] = c]
    ELSE c

UpperChar(c) ==
    IF \E i \in 1..Len(LowerChars) : LowerChars[i] = c
    THEN UpperChars[CHOOSE i \in 1..Len(LowerChars) : LowerChars[i] = c]
    ELSE c

\* str.lower()
Lower(s) == [i \in 1..Len(s) |-> LowerChar(s[i])]

\* str.upper(), used to build inputs only
Upper(s) == [i \in 1..Len(s) |-> UpperChar(s[i])]

\* Python's `sub in s` for strings
Contains(sub, s) ==
    \E i \in 0..(Len(s) - Len(sub)) : \A j \in 1..Len(sub) : s[i + j] = sub[j]

\* any(k in s for k in keywords)
ContainsAny(keywords, s) ==
    \E n \in 1..Len(keywords) : Contains(keywords[n], s)

---------------------------------------------------------------------------
(* The closed label vocabulary and the classifier's keyword lists *)

ALLOWED_LABELS ==
    << <<"f","i","n","a","n","c","e">>,
       <<"b","a","n","k","i","n","g">>,
       <<"i","n","v","e","s","t","m","e","n","t","s">>,
       <<"s","e","c","u","r","i","t","y">>,
       <<"a","u","t","h","e","n","t","i","c","a","t","i","o","n">>,
       <<"m","e","e","t","i","n","g","s">>,
       <<"a","p","p","o","i","n","t","m","e","n","t","s">>,
       <<"p","e","r","s","o","n","a","l">>,
       <<"w","o","r","k">>,
       <<"c","a","r","e","e","r">>,
       <<"s","h","o","p","p","i","n","g">>,
       <<"s","o","c","i","a","l">>,
       <<"e","n","t","e","r","t","a","i","n","m","e","n","t">>,
       <<"n","e","w","s">>,
       <<"n","e","w","s","l","e","t","t","e","r","s">>,
       <<"p","r","o","m","o","t","i","o","n","s">>,
       <<"m","a","r","k","e","t","i","n","g">>,
       <<"s","p","a","m">>,
       <<"t","r","a","v","e","l">>,
       <<"h","e","a","l","t","h">>,
       <<"e","d","u","c","a","t","i","o","n">>,
       <<"l","e","g","a","l">>,
       <<"t","a","x","e","s">>,
       <<"r","e","c","e","i","p","t","s">>,
       <<"n","o","t","i","f","i","c","a","t","i","o","n","s">>,
       <<"u","p","d","a","t","e","s">>,
       <<"a","l","e","r","t","s">>,
       <<"s","u","p","p","o","r","t">>,
       <<"b","i","l","l","s">>,
       <<"i","n","s","u","r","a","n","c","e">>,
       <<"j","o","b","-","a","p","p","l","i","c","a","t","i","o","n">>,
       <<"j","o","b","-","i","n","t","e","r","v","i","e","w">>,
       <<"j","o","b","-","o","f","f","e","r">>,
       <<"j","o","b","-","r","e","j","e","c","t","i","o","n">>,
       <<"j","o","b","-","a","d">>,
       <<"j","o","b","-","f","o","l","l","o","w","u","p">> >>

\* "no label": Python's None (falsy, like the empty string)
NoLabel == <<>>

pure_temporal_keywords ==
    << <<"l","a","s","t">>,
       <<"r","e","c","e","n","t">>,
       <<"l","a","t","e","s","t">>,
       <<"n","e","w","e","s","t">>,
       <<"o","l","d","e","s","t">>,
       <<"f","i","r","s","t">>,
       <<"t","o","d","a","y">>,
       <<"y","e","s","t","e","r","d","a","y">>,
       <<"t","h","i","s"," ","w","e","e","k">>,
       <<"t","h","i","s"," ","m","o","n","t","h">>,
       <<"t","h","i","s"," ","y","e","a","r">>,
       <<"u","n","r","e","a","d">>,
       <<"s","t","a","r","r","e","d">>,
       <<"i","m","p","o","r","t","a","n","t">> >>

listing_patterns ==
    << <<"m","y"," ","e","m","a","i","l","s">>,
       <<"a","l","l"," ","e","m","a","i","l","s">>,
       <<"s","h","o","w"," ","e","m","a","i","l","s">>,
       <<"l","i","s","t"," ","e","m","a","i","l","s">> >>

counting_words ==
    << <<"h","o","w"," ","m","a","n","y">>,
       <<"c","o","u","n","t">>,
       <<"n","u","m","b","e","r"," ","o","f">> >>

\* Words the classifier's inputs are built from (each in lower and in upper case)
Lexicon ==
    { <<"f","i","n","a","n","c","e">>,
      <<"n","e","w","s","l","e","t","t","e","r","s">>,
      <<"j","o","b","-","r","e","j","e","c","t","i","o","n">>,
      <<"l","a","t","e","s","t">>,
      <<"i","m","p","o","r","t","a","n","t">>,
      <<"m","y">>,
      <<"e","m","a","i","l","s">>,
      <<"h","o","w">>,
      <<"m","a","n","y">>,
      <<"a","c","c","o","u","n","t">>,
      <<"m","o","r","t","g","a","g","e">> }

Words == Lexicon \cup { Upper(w) : w \in Lexicon }

RECURSIVE JoinWords(_)
\* " ".join(ws)
JoinWords(ws) ==
    IF Len(ws) = 0 THEN <<>>
    ELSE IF Len(ws) = 1 THEN ws[1]
    ELSE ws[1] \o <<" ">> \o JoinWords(Tail(ws))

\* The classifier's inputs: the empty string and every question of up to MaxWords words
Questions == { JoinWords(ws) : ws \in UNION { [1..n -> Words] : n \in 0..MaxWords } }

---------------------------------------------------------------------------
(* Classification Label Matcher and Query Classifier *)

\* Spec 4.2: the first vocabulary entry whose token appears in the lower-cased question
get_label_from_query(question) ==
    LET q    == Lower(question)
        hits == { n \in 1..Len(ALLOWED_LABELS) : Contains(ALLOWED_LABELS[n], q) }
    IN  IF hits = {} THEN NoLabel
        ELSE ALLOWED_LABELS[CHOOSE n \in hits : \A m \in hits : n <= m]

\* Spec 4.1, step 1: the question matches the vocabulary, via the Label Matcher
is_classification_query(question) == get_label_from_query(question) # NoLabel

\* Faulty variant of _detect_query_type: the temporal keywords are tried before the labels
detect_temporal_first(question) ==
    LET question_lower == Lower(question)
    IN  IF ContainsAny(pure_temporal_keywords, question_lower) THEN "temporal"
        ELSE IF ContainsAny(listing_patterns, question_lower) THEN "temporal"
        ELSE IF is_classification_query(question) THEN "classification"
        ELSE "semantic"

\* Faulty variant of _detect_query_type: the keywords are sought in the question as typed
detect_case_sensitive(question) ==
    IF is_classification_query(question) THEN "classification"
    ELSE IF ContainsAny(pure_temporal_keywords, question) THEN "temporal"
    ELSE IF ContainsAny(listing_patterns, question) THEN "temporal"
    ELSE "semantic"

\* Faulty variant of _detect_query_type: the default is the temporal strategy
detect_default_temporal(question) ==
    LET question_lower == Lower(question)
    IN  IF is_classification_query(question) THEN "classification"
        ELSE "temporal"

\* RAGQueryEngine._detect_query_type
_detect_query_type(question) ==
    LET question_lower == Lower(question)
    IN  IF is_classification_query(question) THEN "classification"
        ELSE IF ContainsAny(pure_temporal_keywords, question_lower) THEN "temporal"
        ELSE IF ContainsAny(listing_patterns, question_lower) THEN "temporal"
        ELSE "semantic"

---------------------------------------------------------------------------
(* Message store *)

\* No dict was returned (no query yet, or the query raised)
NoResult == [none |-> TRUE]

MsgIds == 1..MaxMsgs

F_finance == ALLOWED_LABELS[1]
F_newsletters == ALLOWED_LABELS[15]

\* classification_labels a saved message may carry (None is the empty list)
LabelLists == { <<F_newsletters>>, <<F_finance, F_newsletters>> }

\* The MailMessage objects handed to save_message; the receipt timestamp is fixed per id
MessageInputs ==
    { [id |-> i, internal_date |-> 10 * i, classification_labels |-> ls,
       embedding |-> TRUE, priority |-> "None", summary |-> "None"] :
        i \in MsgIds, ls \in LabelLists }

Range(s) == { s[i] : i \in 1..Len(s) }

\* Python's s[a:b] for 0 <= a and 0 <= b
IsPrefix(s, t) == Len(s) <= Len(t) /\ \A i \in 1..Len(s) : s[i] = t[i]

\* InMemoryStorage.__init__: both classification dicts are empty
NoClassifications == [id \in MsgIds |-> <<>>]
NoLatest == [id \in MsgIds |-> 0]

PySlice(s, a, b) ==
    LET hi == IF b < Len(s) THEN b ELSE Len(s)
    IN  IF a >= hi THEN <<>> ELSE [i \in 1..(hi - a) |-> s[a + i]]

\* Faulty variant of save_message: a second entry for an id already stored
save_message_appending(msg) == Append(messages, msg)

\* InMemoryStorage.save_message: a dict assignment keeps the position of an existing key
save_message(msg) ==
    IF \E i \in 1..Len(messages) : messages[i].id = msg.id
    THEN [i \in 1..Len(messages) |-> IF messages[i].id = msg.id THEN msg ELSE messages[i]]
    ELSE Append(messages, msg)

NoMessage == [id |-> 0]

\* InMemoryStorage.get_message_by_id: self._messages.get(message_id)
get_message_by_id(message_id) ==
    IF \E i \in 1..Len(messages) : messages[i].id = message_id
    THEN messages[CHOOSE i \in 1..Len(messages) : messages[i].id = message_id]
    ELSE NoMessage

\* InMemoryStorage.list_messages
list_messages(limit, offset) == PySlice(messages, offset, offset + limit)

RECURSIVE OrderDesc(_, _)
\* The positions idx of `messages` ordered by key descending; equal keys keep store order
OrderDesc(idx, key) ==
    IF idx = {} THEN <<>>
    ELSE LET top == CHOOSE i \in idx :
                        \A j \in idx : key[i] > key[j] \/ (key[i] = key[j] /\ i <= j)
         IN  <<top>> \o OrderDesc(idx \ {top}, key)

\* Spec 4.3 / 6, listByLabel: the messages whose current labels include `label`,
\* newest first, with the unfiltered match count
list_messages_by_label(label, limit, offset) ==
    LET hits  == { i \in 1..Len(messages) : label \in Range(messages[i].classification_labels) }
        dates == [i \in 1..Len(messages) |-> messages[i].internal_date]
        order == OrderDesc(hits, dates)
        all   == [n \in 1..Len(order) |-> messages[order[n]]]
    IN  [emails |-> PySlice(all, offset, offset + limit), total_count |-> Len(all)]

\* Spec 4.5 / 6, similaritySearch: the stored messages whose score against the query
\* vector is at least `threshold`, best first, at most `limit` of them.
\* scores[id] is the similarity of message id to the query vector.
similarity_search(scores, limit, threshold) ==
    LET hits  == { i \in 1..Len(messages) :
                      messages[i].embedding /\ scores[messages[i].id] >= threshold }
        keys  == [i \in 1..Len(messages) |-> scores[messages[i].id]]
        order == OrderDesc(hits, keys)
        all   == [n \in 1..Len(order) |-> [msg |-> messages[order[n]], score |-> keys[order[n]]]]
    IN  PySlice(all, 0, limit)

---------------------------------------------------------------------------
(* Context Formatter and Answer Composer *)

\* Spec 4.6: one numbered block per message, index from 1, in input order
build_context_from_messages(emails) ==
    [i \in 1..Len(emails) |-> [index |-> i, message_id |-> emails[i].id]]

\* Spec 4.6, for (message, score) pairs
build_context(similar_emails) ==
    [i \in 1..Len(similar_emails) |-> [index |-> i, message_id |-> similar_emails[i].msg.id]]

\* RAGQueryEngine.top_k as constructed by default
self_top_k == 5

\* What the generation provider does with one request
Responses == { "text", "error", "no_response_key" }

\* Faulty variant of _call_llm: a failed request is sent once more before giving up
_call_llm_retry(prompt, resp) ==
    IF provider \in {"ollama", "openai", "anthropic"}
    THEN IF resp = "error"
         THEN [raised |-> TRUE, text |-> "", sent |-> <<prompt, prompt>>]
         ELSE [raised |-> FALSE, text |-> "generated", sent |-> <<prompt>>]
    ELSE [raised |-> FALSE, text |-> "RAG queries require Ollama, OpenAI, or Anthropic",
          sent |-> <<>>]

\* RAGQueryEngine._call_llm.  `sent` holds the request when the provider was called.
_call_llm(prompt, resp) ==
    IF provider = "ollama"
    THEN IF resp = "error"
         THEN [raised |-> TRUE, text |-> "", sent |-> <<prompt>>]
         ELSE IF resp = "no_response_key"
         THEN [raised |-> FALSE, text |-> "Unable to generate answer", sent |-> <<prompt>>]
         ELSE [raised |-> FALSE, text |-> "generated", sent |-> <<prompt>>]
    ELSE IF provider \in {"openai", "anthropic"}
    THEN IF resp = "text"
         THEN [raised |-> FALSE, text |-> "generated", sent |-> <<prompt>>]
         ELSE [raised |-> TRUE, text |-> "", sent |-> <<prompt>>]
    ELSE [raised |-> FALSE, text |-> "RAG queries require Ollama, OpenAI, or Anthropic",
          sent |-> <<>>]

\* RAGQueryEngine._generate_answer
_generate_answer(question, context, resp) ==
    _call_llm([template |-> "semantic", context |-> context, question |-> question], resp)

\* RAGQueryEngine._generate_answer_classification
_generate_answer_classification(question, context, emails, total_count, label, resp) ==
    _call_llm([template |-> "classification", context |-> context, question |-> question,
               total_count |-> total_count, shown |-> Len(emails), label |-> label], resp)

\* RAGQueryEngine._generate_answer_temporal
_generate_answer_temporal(question, context, emails, resp) ==
    _call_llm([template |-> "temporal", context |-> context, question |-> question], resp)

---------------------------------------------------------------------------
(* Retrieval strategies.  Each returns what the call did:                  *)
(*   raised: an exception left the handler; result: the dict returned;     *)
(*   retrieved: what the storage call returned (message ids);              *)
(*   search_args: similarity_search calls; llm_prompts: provider requests  *)

Max(a, b) == IF a >= b THEN a ELSE b
Min(a, b) == IF a <= b THEN a ELSE b

\* any(word in question_lower for word in ['how many', 'count', 'number of'])
is_counting_query(question) == ContainsAny(counting_words, Lower(question))

\* Faulty variant of search_limit: min for max
search_limit_min(counting, limit) == IF counting THEN Min(limit, 50) ELSE limit

\* limit = max(limit, 50) for a counting query
search_limit(counting, limit) == IF counting THEN Max(limit, 50) ELSE limit

\* Faulty variant of search_threshold: the threshold is lowered for every question
search_threshold_always(counting, threshold) == Min(threshold, 25)

\* threshold = min(threshold, 0.25) for a counting query
search_threshold(counting, threshold) == IF counting THEN Min(threshold, 25) ELSE threshold

\* Faulty variant of confidence_of: the tiers include their lower bound
confidence_of_inclusive(similar_emails) ==
    IF similar_emails[1].score >= 80 THEN "high"
    ELSE IF similar_emails[1].score >= 60 THEN "medium"
    ELSE "low"

\* 'high' if similar_emails[0][1] > 0.8 else 'medium' if similar_emails[0][1] > 0.6 else 'low'
confidence_of(similar_emails) ==
    IF similar_emails[1].score > 80 THEN "high"
    ELSE IF similar_emails[1].score > 60 THEN "medium"
    ELSE "low"

\* Faulty variant of exact_similarities: the similarity falls with the position
exact_similarities_by_rank(emails) == [i \in 1..Len(emails) |-> 100 - (i - 1)]

\* 'similarity': 1.0 for every source of a classification or temporal result
exact_similarities(emails) == [i \in 1..Len(emails) |-> 100]

\* Faulty variant of format_sources: the entries come out in reverse order
format_sources_reversed(emails, similarities) ==
    [i \in 1..Len(emails) |->
        [message_id |-> emails[Len(emails) + 1 - i].id,
         similarity |-> similarities[Len(emails) + 1 - i],
         date |-> emails[Len(emails) + 1 - i].internal_date]]

\* The source entries of a result; similarities[i] is the similarity of entry i
format_sources(emails, similarities) ==
    [i \in 1..Len(emails) |->
        [message_id |-> emails[i].id, similarity |-> similarities[i],
         date |-> emails[i].internal_date]]

Ids(emails) == [i \in 1..Len(emails) |-> emails[i].id]

\* RAGQueryEngine._handle_semantic_query
_handle_semantic_query(question, limit0, threshold0, scores, resp) ==
    LET counting       == is_counting_query(question)
        limit          == search_limit(counting, limit0)
        threshold      == search_threshold(counting, threshold0)
        similar_emails == similarity_search(scores, limit, threshold)
        searched       == << [limit |-> limit, threshold |-> threshold] >>
        emails         == [i \in 1..Len(similar_emails) |-> similar_emails[i].msg]
        similarities   == [i \in 1..Len(similar_emails) |-> similar_emails[i].score]
        context        == build_context(similar_emails)
        answer         == _generate_answer(question, context, resp)
    IN  IF similar_emails = <<>>
        THEN [raised |-> FALSE, retrieved |-> <<>>, search_args |-> searched,
              llm_prompts |-> <<>>,
              result |-> [answer |-> "I couldn't find any relevant emails to answer your question.",
                          sources |-> <<>>, question |-> question,
                          confidence |-> "none", query_type |-> "semantic"]]
        ELSE IF answer.raised
        THEN [raised |-> TRUE, retrieved |-> Ids(emails), search_args |-> searched,
              llm_prompts |-> answer.sent, result |-> NoResult]
        ELSE [raised |-> FALSE, retrieved |-> Ids(emails), search_args |-> searched,
              llm_prompts |-> answer.sent,
              result |-> [answer |-> answer.text,
                          sources |-> format_sources(emails, similarities),
                          question |-> question,
                          confidence |-> confidence_of(similar_emails),
                          query_type |-> "semantic"]]

\* Faulty variant of lookup_by_label: one message more than the limit is fetched
lookup_by_label_plus_one(matched, limit) == list_messages_by_label(matched, limit + 1, 0)

\* self.storage.list_messages_by_label(matched_label, limit=limit, offset=0)
lookup_by_label(matched, limit) == list_messages_by_label(matched, limit, 0)

\* Faulty variant of fallback_threshold: the caller's threshold is handed on
fallback_threshold_of_caller == call.similarity_threshold

\* The threshold of the semantic fallback: self._handle_semantic_query(question, limit, 0.5)
fallback_threshold == 50

\* RAGQueryEngine._handle_classification_query
_handle_classification_query(question, limit, scores, resp) ==
    LET matched     == get_label_from_query(question)
        found       == lookup_by_label(matched, limit)
        emails      == found.emails
        total_count == found.total_count
        ones        == exact_similarities(emails)
        context     == build_context_from_messages(emails)
        answer      == _generate_answer_classification(question, context, emails,
                                                       total_count, matched, resp)
    IN  IF matched = NoLabel
        THEN _handle_semantic_query(question, limit, fallback_threshold, scores, resp)
        ELSE IF emails = <<>>
        THEN [raised |-> FALSE, retrieved |-> <<>>, search_args |-> <<>>,
              llm_prompts |-> <<>>,
              result |-> [answer |-> "I couldn't find any emails with the label",
                          sources |-> <<>>, question |-> question,
                          confidence |-> "none", query_type |-> "classification"]]
        ELSE IF answer.raised
        THEN [raised |-> TRUE, retrieved |-> Ids(emails), search_args |-> <<>>,
              llm_prompts |-> answer.sent, result |-> NoResult]
        ELSE [raised |-> FALSE, retrieved |-> Ids(emails), search_args |-> <<>>,
              llm_prompts |-> answer.sent,
              result |-> [answer |-> answer.text,
                          sources |-> format_sources(emails, ones),
                          question |-> question,
                          confidence |-> "high", query_type |-> "classification",
                          total_count |-> total_count]]

\* Faulty variant of no_recent_emails: the empty mailbox is not noticed
no_recent_emails_never(recent_emails) == FALSE

\* `if not recent_emails`
no_recent_emails(recent_emails) == recent_emails = <<>>

\* RAGQueryEngine._handle_temporal_query
_handle_temporal_query(question, limit, resp) ==
    LET recent_emails == list_messages(limit, 0)
        ones          == exact_similarities(recent_emails)
        context       == build_context_from_messages(recent_emails)
        answer        == _generate_answer_temporal(question, context, recent_emails, resp)
    IN  IF no_recent_emails(recent_emails)
        THEN [raised |-> FALSE, retrieved |-> <<>>, search_args |-> <<>>,
              llm_prompts |-> <<>>,
              result |-> [answer |-> "I couldn't find any emails in the database.",
                          sources |-> <<>>, question |-> question,
                          confidence |-> "none"]]
        ELSE IF answer.raised
        THEN [raised |-> TRUE, retrieved |-> Ids(recent_emails), search_args |-> <<>>,
              llm_prompts |-> answer.sent, result |-> NoResult]
        ELSE [raised |-> FALSE, retrieved |-> Ids(recent_emails), search_args |-> <<>>,
              llm_prompts |-> answer.sent,
              result |-> [answer |-> answer.text,
                          sources |-> format_sources(recent_emails, ones),
                          question |-> question,
                          confidence |-> "high", query_type |-> "temporal"]]

\* `top_k or self.top_k`: None and 0 are both falsy.  top_k is <<>> for None, <<n>> for n.
ResolveTopK(top_k) == IF top_k # <<>> /\ top_k[1] # 0 THEN top_k[1] ELSE self_top_k

---------------------------------------------------------------------------
(* The engine over the store *)

Providers == { "ollama", "openai", "anthropic", "rules" }

\* Questions put to the engine: one per strategy, a counting question, and the
\* empty question
EngineQuestions ==
    { <<>>,
      F_finance,
      JoinWords(<< <<"l","a","t","e","s","t">>, <<"e","m","a","i","l","s">> >>),
      <<"m","o","r","t","g","a","g","e">>,
      JoinWords(<< <<"h","o","w">>, <<"m","a","n","y">>, <<"m","o","r","t","g","a","g","e">> >>) }

\* top_k as passed by the caller: absent, or an integer
TopKInputs == { <<>>, <<0>>, <<1>>, <<60>> }

\* similarity_threshold as passed by the caller
ThresholdInputs == { 10, 70 }

\* Similarity scores the search may report
Scores == { 20, 60, 72, 80, 81 }

StoredIds == { messages[i].id : i \in 1..Len(messages) }

\* The similarity of each stored message to the query vector, drawn when the
\* handler reaches similarity_search
SearchScores(reached) ==
    IF reached THEN [StoredIds -> Scores] ELSE { [i \in StoredIds |-> 0] }

\* What the provider may answer; a provider _call_llm does not know is never asked
ResponsesOf(p) ==
    IF p = "ollama" THEN Responses
    ELSE IF p \in {"openai", "anthropic"} THEN {"text", "error"}
    ELSE {"text"}

NoCall == [question |-> <<>>, top_k |-> <<>>, similarity_threshold |-> 50]

Init ==
    /\ messages = <<>>
    /\ provider \in Providers
    /\ pc = "idle"
    /\ call = NoCall
    /\ k = 0
    /\ query_type = ""
    /\ matched_label = NoLabel
    /\ retrieved = <<>>
    /\ search_args = <<>>
    /\ llm_prompts = <<>>
    /\ result = NoResult
    /\ classifications = NoClassifications
    /\ latest_classification = NoLatest
    /\ next_id = 1

\* storage.save_message, between queries
SaveMessage ==
    /\ pc = "idle"
    /\ \E msg \in MessageInputs : messages' = save_message(msg)
    /\ UNCHANGED classification_store
    /\ UNCHANGED <<provider, pc, call, k, query_type, matched_label, retrieved,
                   search_args, llm_prompts, result>>

\* RAGQueryEngine.query, up to the dispatch
Query ==
    /\ pc = "idle"
    /\ \E q \in EngineQuestions, tk \in TopKInputs, thr \in ThresholdInputs :
        /\ call' = [question |-> q, top_k |-> tk, similarity_threshold |-> thr]
        /\ k' = ResolveTopK(tk)
        /\ query_type' = _detect_query_type(q)
        /\ pc' = IF query_type' = "classification" THEN "classification"
                 ELSE IF query_type' = "temporal" THEN "temporal"
                 ELSE "semantic"
    /\ UNCHANGED classification_store
    /\ UNCHANGED <<messages, provider, matched_label, retrieved, search_args,
                   llm_prompts, result>>

\* The outcome o of a handler becomes the outcome of query
Finish(o) ==
    /\ pc' = IF o.raised THEN "raised" ELSE "returned"
    /\ result' = o.result
    /\ retrieved' = o.retrieved
    /\ search_args' = o.search_args
    /\ llm_prompts' = o.llm_prompts

\* query returns self._handle_classification_query(question, k)
HandleClassification ==
    /\ pc = "classification"
    /\ matched_label' = get_label_from_query(call.question)
    /\ \E scores \in SearchScores(matched_label' = NoLabel), resp \in ResponsesOf(provider) :
          Finish(_handle_classification_query(call.question, k, scores, resp))
    /\ UNCHANGED classification_store
    /\ UNCHANGED <<messages, provider, call, k, query_type>>

\* query returns self._handle_temporal_query(question, k)
HandleTemporal ==
    /\ pc = "temporal"
    /\ \E resp \in ResponsesOf(provider) :
          Finish(_handle_temporal_query(call.question, k, resp))
    /\ UNCHANGED classification_store
    /\ UNCHANGED <<messages, provider, call, k, query_type, matched_label>>

\* query returns self._handle_semantic_query(question, k, similarity_threshold)
HandleSemantic ==
    /\ pc = "semantic"
    /\ \E scores \in SearchScores(TRUE), resp \in ResponsesOf(provider) :
          Finish(_handle_semantic_query(call.question, k, call.similarity_threshold,
                                        scores, resp))
    /\ UNCHANGED classification_store
    /\ UNCHANGED <<messages, provider, call, k, query_type, matched_label>>

\* The caller takes the result (or the exception); nothing of the query is kept
Return ==
    /\ pc \in {"returned", "raised"}
    /\ pc' = "idle"
    /\ call' = NoCall
    /\ k' = 0
    /\ query_type' = ""
    /\ matched_label' = NoLabel
    /\ retrieved' = <<>>
    /\ search_args' = <<>>
    /\ llm_prompts' = <<>>
    /\ result' = NoResult
    /\ UNCHANGED classification_store
    /\ UNCHANGED <<messages, provider>>

Next ==
    \/ SaveMessage
    \/ Query
    \/ HandleClassification
    \/ HandleTemporal
    \/ HandleSemantic
    \/ Return

Spec == Init /\ [][Next]_vars

---------------------------------------------------------------------------
(* find_similar_emails *)

MaxSimilarMsgs == 3

SimilarIds == 1..MaxSimilarMsgs

\* Messages as the embedding pass finds or leaves them: with or without a vector
SimilarInputs ==
    { [id |-> i, internal_date |-> 10 * i, classification_labels |-> <<F_newsletters>>,
       embedding |-> e, priority |-> "None", summary |-> "None"] :
        i \in SimilarIds, e \in BOOLEAN }

\* The ids and limits find_similar_emails is called with; id 0 is never stored
SimilarIdInputs == SimilarIds \cup {0}
LimitInputs == {0, 1, 2}
SimilarScores == {20, 60, 80}

\* Faulty variant of without_original: the original message stays in the list
without_original_kept(similar_emails, message_id) == similar_emails

\* [(msg, score) for msg, score in similar_emails if msg.id != message_id]
without_original(similar_emails, message_id) ==
    SelectSeq(similar_emails, LAMBDA e : e.msg.id # message_id)

\* The entries find_similar_emails returns for similar_emails[:limit]
format_similar(similar_emails) ==
    [i \in 1..Len(similar_emails) |->
        [message_id |-> similar_emails[i].msg.id,
         similarity |-> similar_emails[i].score,
         date       |-> similar_emails[i].msg.internal_date,
         labels     |-> similar_emails[i].msg.classification_labels]]

\* RAGQueryEngine.find_similar_emails
find_similar_emails(message_id, limit, scores) ==
    LET message == get_message_by_id(message_id)
        none    == [raised |-> FALSE, retrieved |-> <<>>, search_args |-> <<>>,
                    result |-> [similar |-> <<>>]]
    IN  IF message = NoMessage THEN none
        ELSE IF ~message.embedding THEN none
        ELSE LET found   == similarity_search(scores, limit + 1, 50)
                 similar == without_original(found, message_id)
             IN  [raised      |-> FALSE,
                  retrieved   |-> [i \in 1..Len(found) |-> found[i].msg.id],
                  search_args |-> <<[limit |-> limit + 1, threshold |-> 50]>>,
                  result      |-> [similar |-> format_similar(PySlice(similar, 0, limit))]]

\* storage.save_message for a message of the similarity lookup
SaveSimilarInput ==
    /\ pc = "idle"
    /\ \E msg \in SimilarInputs : messages' = save_message(msg)
    /\ UNCHANGED classification_store
    /\ UNCHANGED <<provider, pc, call, k, query_type, matched_label, retrieved,
                   search_args, llm_prompts, result>>

\* A call of find_similar_emails; the scores are those of the stored vectors
\* against the vector of the message asked about
FindSimilar ==
    /\ pc = "idle"
    /\ \E id \in SimilarIdInputs, limit \in LimitInputs :
        \E scores \in [StoredIds -> SimilarScores] :
            LET o == find_similar_emails(id, limit, scores)
            IN  /\ call' = [message_id |-> id, limit |-> limit]
                /\ pc' = IF o.raised THEN "raised" ELSE "returned"
                /\ result' = o.result
                /\ retrieved' = o.retrieved
                /\ search_args' = o.search_args
    /\ UNCHANGED classification_store
    /\ UNCHANGED <<messages, provider, k, query_type, matched_label, llm_prompts>>

NextSimilar ==
    \/ SaveSimilarInput
    \/ FindSimilar
    \/ Return

SpecSimilar == Init /\ [][NextSimilar]_vars

---------------------------------------------------------------------------
(* InMemoryStorage: messages and classification records *)

\* Number of classification writes in a run; uuid4() and the clock never repeat
MaxRecords == 3

\* A message as ingestion saves it: not yet classified
StorageInputs ==
    { [id |-> i, internal_date |-> 10 * i, classification_labels |-> <<>>,
       embedding |-> TRUE, priority |-> "None", summary |-> "None"] : i \in MsgIds }

\* What a classification write carries
ClassificationInputs ==
    { [labels |-> ls, priority |-> "high", summary |-> "s", model |-> "m"] :
        ls \in {<<F_finance>>} }

\* ClassificationRecord.to_dict: the record's fields, one by one
to_dict(record) ==
    [id         |-> record.id,
     message_id |-> record.message_id,
     labels     |-> record.labels,
     priority   |-> record.priority,
     summary    |-> record.summary,
     model      |-> record.model,
     created_at |-> record.created_at]

\* ClassificationRecord.from_dict
from_dict(d) ==
    [id         |-> d.id,
     message_id |-> d.message_id,
     labels     |-> d.labels,
     priority   |-> d.priority,
     summary    |-> d.summary,
     model      |-> d.model,
     created_at |-> d.created_at]

\* Faulty variant of append_record: the new record replaces the history
append_record_replacing(lst, record) == <<record>>

\* lst = self._classifications.setdefault(message_id, []); lst.append(record)
append_record(lst, record) == Append(lst, record)

\* InMemoryStorage.get_latest_classification; NoResult stands for None
get_latest_classification(message_id) ==
    LET classification_id == latest_classification[message_id]
        lst == classifications[message_id]
    IN  IF classification_id = 0 THEN NoResult
        ELSE IF \E i \in 1..Len(lst) : lst[i].id = classification_id
        THEN lst[CHOOSE i \in 1..Len(lst) :
                    /\ lst[i].id = classification_id
                    /\ \A j \in 1..(i - 1) : lst[j].id # classification_id]
        ELSE NoResult

\* InMemoryStorage.list_classification_records_for_message
list_classification_records_for_message(message_id) ==
    [i \in 1..Len(classifications[message_id]) |-> from_dict(classifications[message_id][i])]

\* InMemoryStorage.init_db
InitDb ==
    /\ pc = "idle"
    /\ messages' = <<>>
    /\ classifications' = NoClassifications
    /\ latest_classification' = NoLatest
    /\ UNCHANGED <<provider, pc, call, k, query_type, matched_label, retrieved,
                   search_args, llm_prompts, result, next_id>>

\* InMemoryStorage.save_message of a newly ingested message
SaveIngested ==
    /\ pc = "idle"
    /\ \E msg \in StorageInputs : messages' = save_message(msg)
    /\ UNCHANGED classification_store
    /\ UNCHANGED <<provider, pc, call, k, query_type, matched_label, retrieved,
                   search_args, llm_prompts, result>>

\* InMemoryStorage.create_classification
CreateClassification ==
    /\ pc = "idle"
    /\ next_id <= MaxRecords
    /\ \E message_id \in MsgIds, c \in ClassificationInputs :
        LET classification_id == next_id
            classification ==
                [id         |-> classification_id,
                 message_id |-> message_id,
                 labels     |-> c.labels,
                 priority   |-> c.priority,
                 summary    |-> c.summary,
                 model      |-> c.model,
                 created_at |-> next_id]
        IN  /\ classifications' =
                  [classifications EXCEPT
                      ![message_id] = append_record(@, classification)]
            /\ latest_classification' =
                  [latest_classification EXCEPT ![message_id] = classification_id]
            /\ messages' =
                  [i \in 1..Len(messages) |->
                      IF messages[i].id = message_id
                      THEN [messages[i] EXCEPT !.classification_labels = c.labels,
                                               !.priority = c.priority,
                                               !.summary = c.summary]
                      ELSE messages[i]]
    /\ next_id' = next_id + 1
    /\ UNCHANGED <<provider, pc, call, k, query_type, matched_label, retrieved,
                   search_args, llm_prompts, result>>

\* InMemoryStorage.save_classification_record, for a record the caller built
SaveClassificationRecord ==
    /\ pc = "idle"
    /\ next_id <= MaxRecords
    /\ \E message_id \in MsgIds, c \in ClassificationInputs :
        LET record ==
                [id         |-> next_id,
                 message_id |-> message_id,
                 labels     |-> c.labels,
                 priority   |-> c.priority,
                 summary    |-> c.summary,
                 model      |-> c.model,
                 created_at |-> next_id]
        IN  classifications' =
                [classifications EXCEPT
                    ![record.message_id] = append_record(@, to_dict(record))]
    /\ next_id' = next_id + 1
    /\ UNCHANGED <<messages, latest_classification, provider, pc, call, k, query_type,
                   matched_label, retrieved, search_args, llm_prompts, result>>

NextStorage ==
    \/ InitDb
    \/ SaveIngested
    \/ CreateClassification
    \/ SaveClassificationRecord

SpecStorage == Init /\ [][NextStorage]_vars

---------------------------------------------------------------------------
(* Queries routed to the classification strategy without a label match *)

\* RAGQueryEngine.query, up to the dispatch, when is_classification_query accepts a
\* question in which get_label_from_query finds no label.  The code of both is
\* absent; the handler's fallback branch is written for this case.
QueryUnmatched ==
    /\ pc = "idle"
    /\ \E q \in EngineQuestions, tk \in TopKInputs, thr \in ThresholdInputs :
        /\ get_label_from_query(q) = NoLabel
        /\ call' = [question |-> q, top_k |-> tk, similarity_threshold |-> thr]
        /\ k' = ResolveTopK(tk)
        /\ query_type' = "classification"
        /\ pc' = "classification"
    /\ UNCHANGED classification_store
    /\ UNCHANGED <<messages, provider, matched_label, retrieved, search_args,
                   llm_prompts, result>>

NextRouted ==
    \/ SaveIngested
    \/ QueryUnmatched
    \/ HandleClassification
    \/ Return

\* The engine serving the queries the classifier accepts without a label match
SpecRouted == Init /\ [][NextRouted]_vars

---------------------------------------------------------------------------
(* InMemoryStorage: statistics, and the store under init_db and save_message *)

\* InMemoryStorage.get_unclassified_message_ids
get_unclassified_message_ids ==
    SelectSeq([i \in 1..Len(messages) |-> messages[i].id],
              LAMBDA msg_id : latest_classification[msg_id] = 0)

\* InMemoryStorage.count_classified_messages: len(self._latest_classification)
count_classified_messages ==
    Cardinality({ msg_id \in MsgIds : latest_classification[msg_id] # 0 })

\* Every message save_message is called with: classified or not, embedded or not
SavedInputs == MessageInputs \cup StorageInputs \cup SimilarInputs

\* InMemoryStorage.save_message of any message
SaveAny ==
    /\ pc = "idle"
    /\ \E msg \in SavedInputs : messages' = save_message(msg)
    /\ UNCHANGED classification_store
    /\ UNCHANGED <<provider, pc, call, k, query_type, matched_label, retrieved,
                   search_args, llm_prompts, result>>

NextMessages ==
    \/ InitDb
    \/ SaveAny

SpecMessages == Init /\ [][NextMessages]_vars

---------------------------------------------------------------------------
(* GET /messages *)

\* limit and offset as the route receives them
PageInputs == {0, 1, 2, 3}

\* MailMessage.to_dict: the message's fields, one by one
message_to_dict(m) ==
    [id                    |-> m.id,
     internal_date         |-> m.internal_date,
     classification_labels |-> m.classification_labels,
     priority              |-> m.priority,
     summary               |-> m.summary]

\* InMemoryStorage.get_message_ids
get_message_ids == [i \in 1..Len(messages) |-> messages[i].id]

\* storage.list_messages_dicts: msgs = _backend.list_messages(limit=limit), then msgs[offset:]
list_messages_dicts(limit, offset) ==
    LET msgs == list_messages(limit, 0)
        rest == PySlice(msgs, offset, Len(msgs))
    IN  [i \in 1..Len(rest) |-> message_to_dict(rest[i])]

\* api.get_messages
get_messages(limit, offset) ==
    [data   |-> list_messages_dicts(limit, offset),
     total  |-> Len(get_message_ids),
     limit  |-> limit,
     offset |-> offset]

\* A GET /messages request served
GetMessages ==
    /\ pc = "idle"
    /\ \E limit \in PageInputs, offset \in PageInputs :
        /\ call' = [limit |-> limit, offset |-> offset]
        /\ result' = get_messages(limit, offset)
    /\ pc' = "returned"
    /\ UNCHANGED classification_store
    /\ UNCHANGED <<messages, provider, k, query_type, matched_label, retrieved,
                   search_args, llm_prompts>>

NextApi ==
    \/ SaveIngested
    \/ GetMessages
    \/ Return

SpecApi == Init /\ [][NextApi]_vars

---------------------------------------------------------------------------
(* Pub/Sub subscriber callback *)

\* message.data as delivered: JSON of an object, JSON of another value, bytes
\* that are not UTF-8, text that is not JSON
DataInputs == {"json_object", "json_other", "not_utf8", "not_json"}

\* What the handler passed to run_subscriber does when called: returns, raises
\* an Exception, or raises a BaseException that is no Exception (SystemExit,
\* KeyboardInterrupt)
HandlerInputs == {"returns", "raises_exception", "raises_base_exception"}

\* message.data.decode("utf-8") followed by json.loads(data)
decode_payload(data) ==
    IF data = "not_utf8" THEN [raised |-> TRUE, payload |-> "UnicodeDecodeError"]
    ELSE IF data = "not_json" THEN [raised |-> TRUE, payload |-> "JSONDecodeError"]
    ELSE [raised |-> FALSE, payload |-> data]

\* Faulty variant of settle: the message is acknowledged whatever the handler did
settle_always_ack(handler_outcome) == "ack"

\* The second try block of _callback: ack after the handler returned, nack in
\* `except Exception`; any other exception leaves the callback
settle(handler_outcome) ==
    IF handler_outcome = "returns" THEN "ack"
    ELSE IF handler_outcome = "raises_exception" THEN "nack"
    ELSE "propagate"

NoDelivery == [acks |-> 0, nacks |-> 0, handled |-> <<>>]

\* The subscriber calls _callback(message)
Deliver ==
    /\ pc = "idle"
    /\ \E data \in DataInputs, h \in HandlerInputs :
          call' = [data |-> data, handler |-> h]
    /\ result' = NoDelivery
    /\ pc' = "callback"
    /\ UNCHANGED classification_store
    /\ UNCHANGED <<messages, provider, k, query_type, matched_label, retrieved,
                   search_args, llm_prompts>>

\* The first try block of _callback
Decode ==
    /\ pc = "callback"
    /\ LET d == decode_payload(call.data)
       IN  IF d.raised
           THEN /\ result' = [result EXCEPT !.nacks = @ + 1]
                /\ pc' = "returned"
           ELSE /\ result' = result
                /\ pc' = "decoded"
    /\ UNCHANGED classification_store
    /\ UNCHANGED <<messages, provider, call, k, query_type, matched_label, retrieved,
                   search_args, llm_prompts>>

\* The second try block of _callback
Handle ==
    /\ pc = "decoded"
    /\ LET payload == decode_payload(call.data).payload
           handled == Append(result.handled, payload)
           verdict == settle(call.handler)
       IN  /\ result' = [acks    |-> result.acks + (IF verdict = "ack" THEN 1 ELSE 0),
                         nacks   |-> result.nacks + (IF verdict = "nack" THEN 1 ELSE 0),
                         handled |-> handled]
           /\ pc' = IF verdict = "propagate" THEN "raised" ELSE "returned"
    /\ UNCHANGED classification_store
    /\ UNCHANGED <<messages, provider, call, k, query_type, matched_label, retrieved,
                   search_args, llm_prompts>>

NextSubscriber ==
    \/ Deliver
    \/ Decode
    \/ Handle
    \/ Return

SpecSubscriber == Init /\ [][NextSubscriber]_vars

---------------------------------------------------------------------------
(* Gmail client: fetch_messages_by_history *)

\* Number of pages of a history listing
MaxPages == 2

\* A history record is its messagesAdded list, each entry the id of its message;
\* 0 is an entry without a message or without an id
RecordInputs == { <<>>, <<1>>, <<2, 1>>, <<0, 2>> }

\* A page is the "history" list of one response; a response without the key is <<>>
PageRecords == UNION { [1..n -> RecordInputs] : n \in 0..2 }

\* A listing is the pages list_next walks through; the first request is always made
Histories == UNION { [1..n -> PageRecords] : n \in 1..MaxPages }

\* Faulty variant of is_new: the seen set is not consulted
is_new_unchecked(message_id, seen) == message_id # 0

\* if message_id and message_id not in seen
is_new(message_id, seen) == message_id # 0 /\ message_id \notin seen

RECURSIVE scan_added(_, _)
\* for added in record.get("messagesAdded", []): acc is [message_ids, seen]
scan_added(added, acc) ==
    IF added = <<>> THEN acc
    ELSE LET message_id == Head(added)
         IN  scan_added(Tail(added),
                        IF is_new(message_id, acc.seen)
                        THEN [message_ids |-> Append(acc.message_ids, message_id),
                              seen        |-> acc.seen \cup {message_id}]
                        ELSE acc)

RECURSIVE scan_records(_, _)
\* for record in response.get("history", [])
scan_records(records, acc) ==
    IF records = <<>> THEN acc
    ELSE scan_records(Tail(records), scan_added(Head(records), acc))

\* fetch_messages_by_history is called on a listing; k is the page the pending
\* request asks for, retrieved is message_ids, result holds the set seen
InitHistory ==
    /\ messages = <<>>
    /\ provider = "ollama"
    /\ pc = "request"
    /\ \E h \in Histories : call = [pages |-> h]
    /\ k = 1
    /\ query_type = ""
    /\ matched_label = NoLabel
    /\ retrieved = <<>>
    /\ search_args = <<>>
    /\ llm_prompts = <<>>
    /\ result = [seen |-> {}]
    /\ classifications = NoClassifications
    /\ latest_classification = NoLatest
    /\ next_id = 1

\* One turn of `while request is not None`: execute, scan the page, list_next
FetchPage ==
    /\ pc = "request"
    /\ LET acc == scan_records(call.pages[k],
                               [message_ids |-> retrieved, seen |-> result.seen])
       IN  /\ retrieved' = acc.message_ids
           /\ result' = [seen |-> acc.seen]
    /\ IF k < Len(call.pages)
       THEN k' = k + 1 /\ pc' = "request"
       ELSE k' = k /\ pc' = "returned"
    /\ UNCHANGED classification_store
    /\ UNCHANGED <<messages, provider, call, query_type, matched_label, search_args,
                   llm_prompts>>

NextHistory == FetchPage

SpecHistory == InitHistory /\ [][NextHistory]_vars

---------------------------------------------------------------------------
(* LLMProcessor.categorize_message *)

finance_keywords ==
    << <<"i","n","v","o","i","c","e">>,
       <<"p","a","y","m","e","n","t">>,
       <<"r","e","c","e","i","p","t">>,
       <<"b","i","l","l">> >>
security_keywords ==
    << <<"p","a","s","s","w","o","r","d">>,
       <<"l","o","g","i","n">>,
       <<"s","e","c","u","r","i","t","y">>,
       <<"a","c","c","o","u","n","t">> >>
urgency_keywords ==
    << <<"u","r","g","e","n","t">>,
       <<"a","s","a","p">>,
       <<"i","m","m","e","d","i","a","t","e","l","y">> >>
meeting_keywords ==
    << <<"m","e","e","t","i","n","g">>,
       <<"s","c","h","e","d","u","l","e">>,
       <<"c","a","l","e","n","d","a","r">> >>

\* Words of the subjects and bodies put to the classifier
MailWords ==
    << <<"I","n","v","o","i","c","e">>,
       <<"P","A","S","S","W","O","R","D">>,
       <<"U","r","g","e","n","t">>,
       <<"m","e","e","t","i","n","g">>,
       <<"h","e","l","l","o">> >>

\* subject: None or "" (both read as ""), or one word
SubjectInputs == {<<>>} \cup Range(MailWords)

\* body: up to MaxWords words
BodyInputs ==
    { JoinWords(ws) : ws \in UNION { [1..n -> Range(MailWords)] : n \in 0..MaxWords } }

\* ORGANIZE_MAIL_LLM_CMD and what running it does: the variable unset or empty;
\* the command fails to launch, times out, or exits non-zero; or it exits 0 with
\* stdout that is not UTF-8, UTF-8 that is not JSON, a JSON object, JSON null
CommandInputs ==
    { "unset", "launch_failure", "timeout", "nonzero_exit",
      "stdout_not_utf8", "stdout_not_json", "stdout_json_object", "stdout_json_null" }

\* json.loads(out) of the two parsable outputs; NoResult stands for None
parsed_stdout(cmd) ==
    IF cmd = "stdout_json_object"
    THEN [labels |-> <<"work">>, priority |-> "low"]
    ELSE NoResult

\* Faulty variant of rule_text: the text is matched as written
rule_text_as_written(subject, body) == subject \o <<"\n">> \o body

\* text_lower of _rule_based: ((subject or "") + "\n" + (body or "")).lower()
rule_text(subject, body) == Lower(subject \o <<"\n">> \o body)

\* LLMProcessor._rule_based
_rule_based(subject, body) ==
    LET text_lower == rule_text(subject, body)
        labels1 == IF ContainsAny(finance_keywords, text_lower) THEN <<"finance">> ELSE <<>>
        labels2 == IF ContainsAny(security_keywords, text_lower)
                   THEN Append(labels1, "security") ELSE labels1
        labels3 == IF ContainsAny(meeting_keywords, text_lower)
                   THEN Append(labels2, "meetings") ELSE labels2
        priority == IF \/ ContainsAny(security_keywords, text_lower)
                       \/ ContainsAny(urgency_keywords, text_lower)
                    THEN "high" ELSE "normal"
    IN  [labels |-> labels3, priority |-> priority]

\* LLMProcessor.categorize_message
categorize_message(subject, body, cmd) ==
    IF cmd # "unset"
    THEN IF cmd \in {"launch_failure", "timeout"}
         THEN _rule_based(subject, body)                \* except Exception
         ELSE IF cmd = "nonzero_exit"
         THEN _rule_based(subject, body)                \* returncode != 0
         ELSE IF cmd = "stdout_not_utf8"
         THEN _rule_based(subject, body)                \* decode raises, outer except
         ELSE IF cmd = "stdout_not_json"
         THEN [labels |-> <<>>, priority |-> "normal"]  \* inner except
         ELSE parsed_stdout(cmd)
    ELSE _rule_based(subject, body)

InitCategorize ==
    /\ messages = <<>>
    /\ provider = "rules"
    /\ pc = "start"
    /\ \E subject \in SubjectInputs, body \in BodyInputs, cmd \in CommandInputs :
          call = [subject |-> subject, body |-> body, cmd |-> cmd]
    /\ k = 0
    /\ query_type = ""
    /\ matched_label = NoLabel
    /\ retrieved = <<>>
    /\ search_args = <<>>
    /\ llm_prompts = <<>>
    /\ result = NoResult
    /\ classifications = NoClassifications
    /\ latest_classification = NoLatest
    /\ next_id = 1

Categorize ==
    /\ pc = "start"
    /\ pc' = "returned"
    /\ result' = categorize_message(call.subject, call.body, call.cmd)
    /\ UNCHANGED classification_store
    /\ UNCHANGED <<messages, provider, call, k, query_type, matched_label, retrieved,
                   search_args, llm_prompts>>

NextCategorize == Categorize

SpecCategorize == InitCategorize /\ [][NextCategorize]_vars

---------------------------------------------------------------------------
(* Concurrent queries on one engine.  Every variable of a query is a function *)
(* of the client that issued it.                                            *)

Clients == {"a", "b"}

\* Questions the clients put: one per strategy
ConcurrentQuestions ==
    { F_finance,
      JoinWords(<< <<"l","a","t","e","s","t">>, <<"e","m","a","i","l","s">> >>),
      <<"m","o","r","t","g","a","g","e">> }

\* The calls the clients make
ConcurrentCalls ==
    { [op |-> "query", question |-> q, top_k |-> tk, similarity_threshold |-> 50] :
        q \in ConcurrentQuestions, tk \in {<<>>, <<1>>} }
    \cup { [op |-> "find_similar", message_id |-> id, limit |-> 1] : id \in MsgIds }

ScoreTable == <<20, 60, 72, 80, 81>>

\* The similarity of a stored message to a query vector: a function of the two
\* texts only, whoever asks and whenever
question_similarity(question, id) == ScoreTable[((Len(question) + id) % 5) + 1]

\* The similarity of two stored messages; a message is identical to itself
message_similarity(message_id, id) ==
    IF message_id = id THEN 100 ELSE ScoreTable[((message_id + id) % 5) + 1]

\* Faulty variant of local_k: k kept in an attribute of the engine, where the
\* other query in flight overwrites it
shared_k(c) ==
    LET others == { d \in Clients \ {c} : pc[d] = "dispatched" }
    IN  IF others = {} THEN k[c] ELSE k[CHOOSE d \in others : TRUE]

\* k is a local variable of query: every call has its own
local_k(c) == k[c]

\* What a call does against the store as it is: query's dispatch and handler, or
\* find_similar_emails
outcome_of(a_call, limit, resp) ==
    IF a_call.op = "find_similar"
    THEN find_similar_emails(a_call.message_id, a_call.limit,
                             [id \in StoredIds |-> message_similarity(a_call.message_id, id)])
         @@ [llm_prompts |-> <<>>]
    ELSE LET question == a_call.question
             scores   == [id \in StoredIds |-> question_similarity(question, id)]
             type     == _detect_query_type(question)
         IN  IF type = "classification"
             THEN _handle_classification_query(question, limit, scores, resp)
             ELSE IF type = "temporal"
             THEN _handle_temporal_query(question, limit, resp)
             ELSE _handle_semantic_query(question, limit, a_call.similarity_threshold,
                                         scores, resp)

IdleCall == [op |-> "none"]

InitConcurrent ==
    /\ messages = <<>>
    /\ provider = "ollama"
    /\ pc = [c \in Clients |-> "idle"]
    /\ call = [c \in Clients |-> IdleCall]
    /\ k = [c \in Clients |-> 0]
    /\ query_type = [c \in Clients |-> ""]
    /\ matched_label = [c \in Clients |-> NoLabel]
    /\ retrieved = [c \in Clients |-> <<>>]
    /\ search_args = [c \in Clients |-> <<>>]
    /\ llm_prompts = [c \in Clients |-> <<>>]
    /\ result = [c \in Clients |-> NoResult]
    /\ classifications = NoClassifications
    /\ latest_classification = NoLatest
    /\ next_id = 1

\* storage.save_message by the ingestion pipeline, while no query is in flight
SaveWhileQuiet ==
    /\ \A c \in Clients : pc[c] = "idle"
    /\ \E msg \in MessageInputs : messages' = save_message(msg)
    /\ UNCHANGED classification_store
    /\ UNCHANGED <<provider, pc, call, k, query_type, matched_label, retrieved,
                   search_args, llm_prompts, result>>

\* Client c calls query or find_similar_emails; query runs up to its dispatch
StartCall(c) ==
    /\ pc[c] = "idle"
    /\ \E a_call \in ConcurrentCalls :
        /\ call' = [call EXCEPT ![c] = a_call]
        /\ k' = [k EXCEPT ![c] = IF a_call.op = "query" THEN ResolveTopK(a_call.top_k)
                                 ELSE a_call.limit]
        /\ query_type' = [query_type EXCEPT ![c] =
                             IF a_call.op = "query" THEN _detect_query_type(a_call.question)
                             ELSE ""]
    /\ pc' = [pc EXCEPT ![c] = "dispatched"]
    /\ UNCHANGED classification_store
    /\ UNCHANGED <<messages, provider, matched_label, retrieved, search_args,
                   llm_prompts, result>>

\* The handler of client c's call runs, with the k of that call
HandleCall(c) ==
    /\ pc[c] = "dispatched"
    /\ \E resp \in ResponsesOf(provider) :
        LET o == outcome_of(call[c], local_k(c), resp)
        IN  /\ pc' = [pc EXCEPT ![c] = IF o.raised THEN "raised" ELSE "returned"]
            /\ result' = [result EXCEPT ![c] = o.result]
            /\ retrieved' = [retrieved EXCEPT ![c] = o.retrieved]
            /\ search_args' = [search_args EXCEPT ![c] = o.search_args]
            /\ llm_prompts' = [llm_prompts EXCEPT ![c] = o.llm_prompts]
    /\ matched_label' = [matched_label EXCEPT ![c] =
                            IF call[c].op = "query"
                            THEN get_label_from_query(call[c].question) ELSE NoLabel]
    /\ UNCHANGED classification_store
    /\ UNCHANGED <<messages, provider, call, k, query_type>>

\* Client c takes its result
ReturnTo(c) ==
    /\ pc[c] \in {"returned", "raised"}
    /\ pc' = [pc EXCEPT ![c] = "idle"]
    /\ call' = [call EXCEPT ![c] = IdleCall]
    /\ k' = [k EXCEPT ![c] = 0]
    /\ query_type' = [query_type EXCEPT ![c] = ""]
    /\ matched_label' = [matched_label EXCEPT ![c] = NoLabel]
    /\ retrieved' = [retrieved EXCEPT ![c] = <<>>]
    /\ search_args' = [search_args EXCEPT ![c] = <<>>]
    /\ llm_prompts' = [llm_prompts EXCEPT ![c] = <<>>]
    /\ result' = [result EXCEPT ![c] = NoResult]
    /\ UNCHANGED classification_store
    /\ UNCHANGED <<messages, provider>>

NextConcurrent ==
    \/ SaveWhileQuiet
    \/ \E c \in Clients : StartCall(c)
    \/ \E c \in Clients : HandleCall(c)
    \/ \E c \in Clients : ReturnTo(c)

SpecConcurrent == InitConcurrent /\ [][NextConcurrent]_vars

---------------------------------------------------------------------------
(* Classifier runs: the classifier and the matcher applied to each input *)

InitClassify ==
    /\ messages = <<>>
    /\ provider = "ollama"
    /\ pc = "start"
    /\ \E q \in Questions : call = [question |-> q, top_k |-> <<>>, similarity_threshold |-> 50]
    /\ k = 0
    /\ query_type = ""
    /\ matched_label = NoLabel
    /\ retrieved = <<>>
    /\ search_args = <<>>
    /\ llm_prompts = <<>>
    /\ result = NoResult
    /\ classifications = NoClassifications
    /\ latest_classification = NoLatest
    /\ next_id = 1

Classify ==
    /\ pc = "start"
    /\ pc' = "classified"
    /\ query_type' = _detect_query_type(call.question)
    /\ matched_label' = get_label_from_query(call.question)
    /\ UNCHANGED classification_store
    /\ UNCHANGED <<messages, provider, call, k, retrieved, search_args, llm_prompts, result>>

NextClassify == Classify

SpecClassify == InitClassify /\ [][NextClassify]_vars

---------------------------------------------------------------------------
(* Properties of the classifier and the matcher, checked under SpecClassify *)

\* The lower-cased question contains some label of the vocabulary
HasLabelToken(q) ==
    \E n \in 1..Len(ALLOWED_LABELS) : Contains(ALLOWED_LABELS[n], Lower(q))

\* The lower-cased question contains a temporal keyword or a listing phrase
HasTemporalMarker(q) ==
    \/ \E n \in 1..Len(pure_temporal_keywords) : Contains(pure_temporal_keywords[n], Lower(q))
    \/ \E n \in 1..Len(listing_patterns) : Contains(listing_patterns[n], Lower(q))

\* The lower-cased question contains counting language
HasCountingLanguage(q) ==
    \E n \in 1..Len(counting_words) : Contains(counting_words[n], Lower(q))

C2_TemporalMarkerGivesTemporal ==
    (pc = "classified" /\ HasTemporalMarker(call.question) /\ ~HasLabelToken(call.question))
        => query_type = "temporal"

\* C2 witness: an upper-case recency word and no label
C2_Witness ==
    /\ pc = "classified"
    /\ Contains(<<"L","A","T","E","S","T">>, call.question)
    /\ ~HasLabelToken(call.question)
    /\ query_type = "temporal"

\* C3: a question with neither a label nor a marker (the empty string included) is
\* classified Semantic, and every question gets exactly one of the three strategies.
C3_OtherwiseSemanticAndTotal ==
    pc = "classified" =>
        /\ query_type \in {"classification", "temporal", "semantic"}
        /\ (~HasLabelToken(call.question) /\ ~HasTemporalMarker(call.question))
              => query_type = "semantic"

\* C3 witness: the empty question, classified Semantic
C3_Witness ==
    /\ pc = "classified"
    /\ call.question = <<>>
    /\ query_type = "semantic"
    /\ matched_label = NoLabel

---------------------------------------------------------------------------
(* Properties of query, checked under Spec *)

QueryEnded == pc \in {"returned", "raised"}

\* C4: when retrieval returns no message, on any of the three paths, the query
\* sends nothing to the generation provider and returns confidence 'none' with an
\* empty source list.
C4_ZeroMatchSkipsGeneration ==
    (QueryEnded /\ retrieved = <<>>) =>
        /\ pc = "returned"
        /\ llm_prompts = <<>>
        /\ result.confidence = "none"
        /\ result.sources = <<>>

\* C4 witness: a semantic query over a non-empty store whose search returned nothing,
\* with a provider that would have been asked
C4_Witness ==
    /\ pc = "returned"
    /\ query_type = "semantic"
    /\ messages # <<>>
    /\ retrieved = <<>>
    /\ provider = "ollama"
    /\ result.confidence = "none"

\* C5: every result returned by query carries the strategy tag query_type, naming
\* the strategy that produced it, zero-match results included.
C5_EveryResultCarriesStrategyTag ==
    pc = "returned" =>
        /\ "query_type" \in DOMAIN result
        /\ result.query_type = query_type

\* The threshold a semantic query is answered with: the caller's, lowered to 0.25
\* for a counting question
EffectiveThreshold ==
    IF HasCountingLanguage(call.question)
    THEN (IF call.similarity_threshold <= 25 THEN call.similarity_threshold ELSE 25)
    ELSE call.similarity_threshold

\* C6: every source of a semantic result has a similarity of at least the
\* effective threshold.
C6_SemanticSourcesReachThreshold ==
    (pc = "returned" /\ query_type = "semantic") =>
        \A i \in 1..Len(result.sources) : result.sources[i].similarity >= EffectiveThreshold

\* C6 witness: a counting question answered with a source the caller's own
\* threshold would have excluded, while a stored message scored too low even so
C6_Witness ==
    /\ pc = "returned"
    /\ query_type = "semantic"
    /\ HasCountingLanguage(call.question)
    /\ result.sources # <<>>
    /\ \E i \in 1..Len(result.sources) :
          result.sources[i].similarity < call.similarity_threshold
    /\ Len(result.sources) < Len(messages)

\* C7: a semantic query with counting language searches with limit >= 50 and
\* threshold <= 0.25 (never less than the caller's limit, never more than the
\* caller's threshold); without counting language it searches with the limit and
\* the threshold it was called with.
C7_CountingQuestionWidensSearch ==
    (QueryEnded /\ query_type = "semantic") =>
        /\ Len(search_args) = 1
        /\ HasCountingLanguage(call.question) =>
              /\ search_args[1].limit >= 50
              /\ search_args[1].limit >= k
              /\ search_args[1].threshold <= 25
              /\ search_args[1].threshold <= call.similarity_threshold
        /\ ~HasCountingLanguage(call.question) =>
              /\ search_args[1].limit = k
              /\ search_args[1].threshold = call.similarity_threshold

\* C7 witness: a counting question from a caller who passed top_k 1 and threshold
\* 0.7, searched with limit 50 and threshold 0.25
C7_Witness ==
    /\ QueryEnded
    /\ query_type = "semantic"
    /\ HasCountingLanguage(call.question)
    /\ call.top_k = <<1>>
    /\ call.similarity_threshold = 70
    /\ search_args = << [limit |-> 50, threshold |-> 25] >>

\* C8: a semantic result with sources has the confidence of its first source, which
\* has the highest score: high above 0.8, medium above 0.6 up to 0.8, low otherwise.
C8_ConfidenceFromTopScore ==
    (pc = "returned" /\ query_type = "semantic" /\ result.sources # <<>>) =>
        LET top == result.sources[1].similarity
        IN  /\ \A i \in 1..Len(result.sources) : result.sources[i].similarity <= top
            /\ top > 80 => result.confidence = "high"
            /\ (top > 60 /\ top <= 80) => result.confidence = "medium"
            /\ top <= 60 => result.confidence = "low"

\* C8 witness: two sources, the better one at 0.72, confidence medium
C8_Witness ==
    /\ pc = "returned"
    /\ query_type = "semantic"
    /\ Len(result.sources) = 2
    /\ result.sources[1].similarity = 72
    /\ result.sources[2].similarity < 72
    /\ result.confidence = "medium"

\* The number of stored messages whose labels include the matched label
TotalWithLabel ==
    Cardinality({ i \in 1..Len(messages) :
                    matched_label \in Range(messages[i].classification_labels) })

\* C9: a classification query with a matched label and a non-empty sample returns
\* total_count = the number of matching messages, confidence 'high', query_type
\* 'classification', and has called the generation provider exactly once.
C9_ClassificationAnswerGeneratedOnce ==
    (pc = "returned" /\ query_type = "classification" /\ matched_label # NoLabel
        /\ retrieved # <<>>) =>
        /\ result.total_count = TotalWithLabel
        /\ result.confidence = "high"
        /\ result.query_type = "classification"
        /\ Len(llm_prompts) = 1

\* C10: a classification result with a total count has total_count >= the number
\* of its sources, and at most k sources (k the resolved limit).
C10_TotalCountCoversSample ==
    (pc = "returned" /\ "total_count" \in DOMAIN result) =>
        /\ result.total_count >= Len(result.sources)
        /\ Len(result.sources) <= k

\* C10 witness: more matches than the limit allows into the sample
C10_Witness ==
    /\ pc = "returned"
    /\ query_type = "classification"
    /\ "total_count" \in DOMAIN result
    /\ result.total_count > Len(result.sources)
    /\ Len(result.sources) = k

\* C13: when the generation call yields no usable provider response, query raises;
\* a returned result built from retrieved messages always carries generated text,
\* never a substituted fallback string.
C13_NoSubstitutedAnswer ==
    (pc = "returned" /\ retrieved # <<>>) =>
        /\ result.answer = "generated"
        /\ Len(llm_prompts) = 1

\* C14: one query sends at most one request to the generation provider, and a
\* query that raised has sent exactly one: a failed call is not retried.
C14_GenerationAtMostOnce ==
    /\ Len(llm_prompts) <= 1
    /\ pc = "raised" => Len(llm_prompts) = 1

\* C14 witness: a query that raised after its single request failed
C14_Witness ==
    /\ pc = "raised"
    /\ Len(llm_prompts) = 1
    /\ retrieved # <<>>

\* The positions of the whole mailbox, newest first
NewestFirst ==
    OrderDesc(1..Len(messages), [i \in 1..Len(messages) |-> messages[i].internal_date])

\* C15: the sources of a temporal result are the first k messages of the whole
\* mailbox in strictly descending order of receipt timestamp, whatever the order
\* in which the messages were saved.
C15_TemporalSourcesNewestFirst ==
    (pc = "returned" /\ query_type = "temporal") =>
        /\ Len(result.sources) = Min(k, Len(messages))
        /\ \A i \in 1..Len(result.sources) :
              result.sources[i].message_id = messages[NewestFirst[i]].id
        /\ \A i \in 1..(Len(result.sources) - 1) :
              result.sources[i].date > result.sources[i + 1].date

\* C19: every source of a classification result and of a temporal result has
\* similarity exactly 1.0.
C19_ExactMatchSimilarity ==
    (pc = "returned" /\ query_type \in {"classification", "temporal"}
        /\ (query_type = "classification" => matched_label # NoLabel)) =>
        \A i \in 1..Len(result.sources) : result.sources[i].similarity = 100

\* C19 witness: a temporal result with two sources
C19_Witness ==
    /\ pc = "returned"
    /\ query_type = "temporal"
    /\ Len(result.sources) = 2
    /\ result.sources[2].similarity = 100

\* C20: the context handed to the provider has one block per retrieved message,
\* numbered from 1 in retrieval order, none dropped or merged, and block i is the
\* message of entry i of the result's sources.
C20_ContextKeepsRetrievalOrder ==
    (pc = "returned" /\ llm_prompts # <<>>) =>
        LET context == llm_prompts[1].context
        IN  /\ Len(context) = Len(retrieved)
            /\ Len(result.sources) = Len(retrieved)
            /\ \A i \in 1..Len(context) :
                  /\ context[i].index = i
                  /\ context[i].message_id = retrieved[i]
                  /\ result.sources[i].message_id = context[i].message_id

\* C20 witness: two messages retrieved in the order opposite to the one they were
\* saved in, and rendered in retrieval order
C20_Witness ==
    /\ pc = "returned"
    /\ Len(llm_prompts) = 1
    /\ Len(messages) = 2
    /\ Len(llm_prompts[1].context) = 2
    /\ llm_prompts[1].context[1].message_id = messages[2].id
    /\ llm_prompts[1].context[2].message_id = messages[1].id

\* A query is past the first line of query: k is set
QueryStarted == pc \in {"classification", "temporal", "semantic", "returned", "raised"}

\* C22: the limit query passes to the strategy is the caller's top_k whenever
\* the caller supplied one, for every integer, and the engine's default top_k
\* only when the caller supplied none.
C22_SuppliedTopKIsTheLimit ==
    QueryStarted =>
        k = (IF call.top_k = <<>> THEN self_top_k ELSE call.top_k[1])

\* C23: query with an empty question fails with a ValidationError: it returns
\* no result, performs no retrieval and makes no generation call.
C23_EmptyQuestionRejected ==
    (QueryEnded /\ call.question = <<>>) =>
        /\ pc = "raised"
        /\ retrieved = <<>>
        /\ search_args = <<>>
        /\ llm_prompts = <<>>

---------------------------------------------------------------------------
(* Property of the classification handler's fallback, checked under SpecRouted *)

\* C18: a query routed to the classification strategy for which the matcher finds
\* no label does not fail for that: it runs the semantic strategy with threshold
\* 0.5, whatever threshold the caller passed (the strategy lowers it to 0.25 for a
\* counting question, as always), and its result is that semantic result.
C18_NoLabelFallsBackToSemantic ==
    (QueryEnded /\ query_type = "classification" /\ matched_label = NoLabel) =>
        /\ Len(search_args) = 1
        /\ search_args[1].threshold =
              (IF HasCountingLanguage(call.question) THEN 25 ELSE 50)
        /\ search_args[1].limit =
              (IF HasCountingLanguage(call.question) /\ k < 50 THEN 50 ELSE k)
        /\ pc = "raised" => Len(llm_prompts) = 1
        /\ pc = "returned" =>
              /\ result.query_type = "semantic"
              /\ \A i \in 1..Len(result.sources) :
                    result.sources[i].similarity >= search_args[1].threshold

\* C18 witness: the caller asked for 0.7, the fallback searched with 0.5 and
\* returned a source scored 0.6
C18_Witness ==
    /\ pc = "returned"
    /\ query_type = "classification"
    /\ matched_label = NoLabel
    /\ call.similarity_threshold = 70
    /\ search_args[1].threshold = 50
    /\ result.sources # <<>>
    /\ result.sources[1].similarity = 60

---------------------------------------------------------------------------
(* Properties of find_similar_emails, checked under SpecSimilar *)

SimilarReturned == pc = "returned"

\* C11: find_similar_emails(id, N) returns at most N entries and none of them is
\* the message id itself, whether or not the search returned that message.
C11_SimilarExcludesSelfAndBounded ==
    SimilarReturned =>
        /\ Len(result.similar) <= call.limit
        /\ \A i \in 1..Len(result.similar) : result.similar[i].message_id # call.message_id

\* C11 witness: the search returned limit+1 messages, the original not among
\* them, and the list was cut to limit entries
C11_Witness ==
    /\ SimilarReturned
    /\ call.limit = 1
    /\ Len(retrieved) = 2
    /\ \A i \in 1..Len(retrieved) : retrieved[i] # call.message_id
    /\ Len(result.similar) = 1

\* The search returned the original message and it was filtered out
C11_SelfMatchFiltered ==
    /\ SimilarReturned
    /\ call.limit = 2
    /\ Len(retrieved) = 3
    /\ \E i \in 1..Len(retrieved) : retrieved[i] = call.message_id
    /\ Len(result.similar) = 2

\* C12: find_similar_emails for an id that is not stored, or whose message has no
\* stored embedding, fails with NotFound and returns no normal result.
C12_AbsentMessageOrEmbeddingFails ==
    (/\ pc \in {"returned", "raised"}
     /\ \/ get_message_by_id(call.message_id) = NoMessage
        \/ ~get_message_by_id(call.message_id).embedding)
        => pc = "raised"

---------------------------------------------------------------------------
(* Properties of the classification records, checked under SpecStorage *)

\* The record of a message's history created last
MostRecentlyCreated(message_id) ==
    LET lst == classifications[message_id]
    IN  lst[CHOOSE i \in 1..Len(lst) :
                \A j \in 1..Len(lst) : lst[j].created_at <= lst[i].created_at]

\* C16: after any sequence of create_classification and save_classification_record
\* calls, a message with a history has one latest classification, and
\* get_latest_classification returns the most recently created record of it.
C16_LatestIsMostRecentlyCreated ==
    \A message_id \in MsgIds :
        classifications[message_id] # <<>> =>
            get_latest_classification(message_id) = MostRecentlyCreated(message_id)

\* The records a step leaves for every message extend the records before it
HistoryExtended ==
    \A message_id \in MsgIds :
        IsPrefix(list_classification_records_for_message(message_id),
                 list_classification_records_for_message(message_id)')

---------------------------------------------------------------------------
(* Property of GET /messages, checked under SpecApi *)

\* C24: GET /messages with limit L and offset O returns at most L messages,
\* the entries O .. O+L-1 of the store's listing, and total is the number of
\* stored messages, for every L >= 0 and O >= 0.
C24_PageIsWindowOfListing ==
    pc = "returned" =>
        LET window == PySlice(messages, call.offset, call.offset + call.limit)
        IN  /\ Len(result.data) <= call.limit
            /\ result.data = [i \in 1..Len(window) |-> message_to_dict(window[i])]
            /\ result.total = Len(messages)

---------------------------------------------------------------------------
(* Property of the message store, checked under SpecMessages *)

\* What get_message_ids and get_message_by_id answer after save_message(msg),
\* against what they answered before it
SavedAndListedOnce(msg) ==
    /\ Range(get_message_ids') = Range(get_message_ids) \cup {msg.id}
    /\ \A i, j \in 1..Len(get_message_ids') :
          get_message_ids'[i] = get_message_ids'[j] => i = j
    /\ get_message_by_id(msg.id)' = msg
    /\ \A other \in SimilarIdInputs \ {msg.id} :
          get_message_by_id(other)' = get_message_by_id(other)

---------------------------------------------------------------------------
(* Properties of messages and their classifications, checked under SpecStorage *)

\* C26: after any sequence of save_message and create_classification calls, in
\* either order, every stored message that has a latest classification carries
\* the labels, priority and summary of that record.
C26_MessageCarriesLatestClassification ==
    \A i \in 1..Len(messages) :
        latest_classification[messages[i].id] # 0 =>
            LET latest == get_latest_classification(messages[i].id)
            IN  /\ latest # NoResult
                /\ messages[i].classification_labels = latest.labels
                /\ messages[i].priority = latest.priority
                /\ messages[i].summary = latest.summary

\* C28: after any sequence of storage operations, count_classified_messages
\* plus the number of unclassified ids equals the number of message ids.
C28_ClassifiedPlusUnclassifiedIsTotal ==
    count_classified_messages + Len(get_unclassified_message_ids) = Len(get_message_ids)

---------------------------------------------------------------------------
(* Properties of the subscriber callback, checked under SpecSubscriber *)

Decoded == ~decode_payload(call.data).raised

\* C27, as stated: for every delivered message exactly one of ack() and nack()
\* is called, once: ack only if the payload decoded and the handler returned
\* without raising, nack otherwise; when decoding fails the handler is not
\* invoked.
C27_ExactlyOneOfAckAndNack ==
    QueryEnded =>
        /\ result.acks + result.nacks = 1
        /\ result.acks = 1 <=> (Decoded /\ call.handler = "returns")
        /\ ~Decoded => result.handled = <<>>

\* C27, amended: at most one of ack() and nack() is called, at most once; ack
\* exactly when the payload decoded and the handler returned, nack exactly when
\* decoding failed or the handler raised an Exception; when decoding fails the
\* handler is not invoked; when the handler raises a BaseException that is no
\* Exception, neither is called and the exception leaves the callback.
C27_AckOrNackUnlessBaseException ==
    /\ pc \in {"callback", "decoded", "returned", "raised"} =>
          result.acks + result.nacks <= 1
    /\ QueryEnded =>
          /\ result.acks = 1 <=> (Decoded /\ call.handler = "returns")
          /\ result.nacks = 1 <=> (~Decoded \/ call.handler = "raises_exception")
          /\ result.handled = (IF Decoded THEN <<call.data>> ELSE <<>>)
          /\ pc = "raised" <=> (Decoded /\ call.handler = "raises_base_exception")

\* C27 witness: the payload decoded, the handler raised an Exception, and the
\* message was nacked once and never acked
C27_Witness ==
    /\ pc = "returned"
    /\ call.data = "json_object"
    /\ call.handler = "raises_exception"
    /\ result.handled = <<"json_object">>
    /\ result.nacks = 1
    /\ result.acks = 0

---------------------------------------------------------------------------
(* Property of fetch_messages_by_history, checked under SpecHistory *)

RECURSIVE Flatten(_)
Flatten(seqs) == IF seqs = <<>> THEN <<>> ELSE Head(seqs) \o Flatten(Tail(seqs))

\* Every messagesAdded entry of the listing, in the order of the pages
AddedInOrder == Flatten([p \in 1..Len(call.pages) |-> Flatten(call.pages[p])])

FirstAppearance(message_id) ==
    CHOOSE i \in 1..Len(AddedInOrder) :
        /\ AddedInOrder[i] = message_id
        /\ \A j \in 1..(i - 1) : AddedInOrder[j] # message_id

\* C29: fetch_messages_by_history follows every page of the listing and returns
\* each added message id exactly once, in order of first appearance, also when
\* an id appears in several records or on several pages.
C29_EachAddedIdOnceInOrder ==
    pc = "returned" =>
        /\ k = Len(call.pages)
        /\ Range(retrieved) = Range(AddedInOrder) \ {0}
        /\ \A i, j \in 1..Len(retrieved) :
              /\ retrieved[i] = retrieved[j] => i = j
              /\ i < j => FirstAppearance(retrieved[i]) < FirstAppearance(retrieved[j])

\* C29 witness: two pages, id 1 on both and twice on the second, id 2 first on
\* the second page
C29_Witness ==
    /\ pc = "returned"
    /\ call.pages = << << <<1>> >>, << <<2, 1>>, <<1>> >> >>
    /\ retrieved = <<1, 2>>

---------------------------------------------------------------------------
(* Properties of categorize_message, checked under SpecCategorize *)

\* A keyword of the list occurs in the subject or in the body, in any case
Mentions(keywords) ==
    \/ ContainsAny(keywords, Lower(call.subject))
    \/ ContainsAny(keywords, Lower(call.body))

\* The result is the rule-based classification of the message
IsRuleBased ==
    /\ result = _rule_based(call.subject, call.body)
    /\ result.priority \in {"high", "normal"}
    /\ result.priority = "high" <=> (Mentions(security_keywords) \/ Mentions(urgency_keywords))

---------------------------------------------------------------------------
(* Property of concurrent queries, checked under SpecConcurrent *)

\* What client c's call retrieves when it runs alone against the store as it is
AloneRetrieval(c) ==
    LET limit == IF call[c].op = "query" THEN ResolveTopK(call[c].top_k) ELSE call[c].limit
        o     == outcome_of(call[c], limit, "text")
    IN  [retrieved   |-> o.retrieved,
         search_args |-> o.search_args,
         sources     |-> IF call[c].op = "query" THEN o.result.sources ELSE o.result.similar]

\* What client c's call did retrieve
Retrieval(c) ==
    [retrieved   |-> retrieved[c],
     search_args |-> search_args[c],
     sources     |-> IF call[c].op = "query" THEN result[c].sources ELSE result[c].similar]

\* A step of some client's query or find_similar_emails
QueryStep == \E c \in Clients : pc'[c] # pc[c]

\* C21: query and find_similar_emails leave the message store, the
\* classification history and the engine's configuration unchanged, and in any
\* interleaving of concurrent queries every query retrieves what it would
\* retrieve running alone against the same store.
C21_QueriesReadOnlyAndIndependent ==
    /\ [][QueryStep => UNCHANGED <<messages, provider, classifications,
                                   latest_classification>>]_vars
    /\ [](\A c \in Clients : pc[c] = "returned" => Retrieval(c) = AloneRetrieval(c))

\* C21 witness: both clients hold results of queries that overlapped, one with
\* top_k 1 and one with the default, over two stored messages
C21_Witness ==
    /\ pc["a"] = "returned"
    /\ pc["b"] = "returned"
    /\ call["a"].op = "query"
    /\ call["b"].op = "query"
    /\ call["a"].top_k = <<1>>
    /\ call["b"].top_k = <<>>
    /\ Len(retrieved["a"]) = 1
    /\ Len(retrieved["b"]) = 2

====
